---- MODULE Spec2Model ----
(***************************************************************************)
(* A model of DendroHeat.py: the DendroHeat object (fields heatmap,        *)
(* linkage, icoord, dcoord, data) and its operations addData, show,        *)
(* _createHeatmap and _createDendrogram.                                   *)
(*                                                                         *)
(* Numbers are exact rationals <<n, d>> with d > 0 in lowest terms; the    *)
(* floats inf and NaN that pandas/numpy produce for x/0, 0/0 and 0*inf are *)
(* <<1, 0>>, <<-1, 0>> and <<0, 0>>.                                       *)
(* The files on disk are part of the state (rawFile, linkFile): the        *)
(* program reads them and never writes them.                               *)
(***************************************************************************)
EXTENDS Integers, Sequences, FiniteSets, TLC

(***************************************************************************)
(* Bounds of the model.                                                    *)
(***************************************************************************)
MaxRows == 3
MaxCols == 2
MaxLeaves == 3
MaxLines == 2

(***************************************************************************)
(* Exact arithmetic.                                                       *)
(***************************************************************************)
Abs(x) == IF x < 0 THEN -x ELSE x

RECURSIVE Gcd(_, _)
Gcd(a, b) == IF b = 0 THEN a ELSE Gcd(b, a % b)

Sign(n) == IF n < 0 THEN -1 ELSE IF n = 0 THEN 0 ELSE 1

\* a float: <<n, d>> in lowest terms with d > 0, or +inf <<1, 0>>, -inf <<-1, 0>>,
\* or NaN <<0, 0>>
Rat(n, d) ==
    IF d = 0 THEN <<Sign(n), 0>>
    ELSE LET g == Gcd(Abs(n), Abs(d))
             s == IF d < 0 THEN -1 ELSE 1
         IN  <<(s * n) \div g, (s * d) \div g>>

NaN == <<0, 0>>

IsNaN(q) == q = NaN

IsFinite(q) == q[2] # 0

Whole(n) == <<n, 1>>

\* k + 0.5
Half(k) == <<2 * k + 1, 2>>

\* IEEE products and quotients: 0 * inf, 0 / 0 and inf / inf are NaN, x / 0 is +-inf
RMul(p, q) == Rat(p[1] * q[1], p[2] * q[2])

RDiv(p, q) == Rat(p[1] * q[2], p[2] * q[1])

RNeg(p) == <<-p[1], p[2]>>

\* p <= q as floats compare: every comparison with NaN is false
RLe(p, q) ==
    /\ ~IsNaN(p)
    /\ ~IsNaN(q)
    /\ IF ~IsFinite(p) /\ ~IsFinite(q) THEN p[1] <= q[1] ELSE p[1] * q[2] <= q[1] * p[2]

\* p == q as floats compare: NaN is not equal to NaN
REq(p, q) == ~IsNaN(p) /\ ~IsNaN(q) /\ p = q

\* builtin max() of a non-empty list of numbers
RECURSIVE ListMax(_)
ListMax(s) ==
    IF Len(s) = 1 THEN s[1]
    ELSE LET m == ListMax(Tail(s)) IN IF RLe(m, s[1]) THEN s[1] ELSE m

RECURSIVE Flatten(_)
Flatten(ss) == IF ss = <<>> THEN <<>> ELSE Head(ss) \o Flatten(Tail(ss))

RECURSIVE Repeat(_, _)
Repeat(s, k) == IF k = 0 THEN <<>> ELSE s \o Repeat(s, k - 1)

Range(s) == {s[i] : i \in DOMAIN s}

IntMax(S) == CHOOSE x \in S : \A y \in S : y <= x
IntMin(S) == CHOOSE x \in S : \A y \in S : x <= y

(***************************************************************************)
(* The files the program is run on.  A raw table has row labels, column    *)
(* labels and one integer per cell.  Column j of the file is the ramp      *)
(* step * (row number) with step = first + j - 1, a constant column when   *)
(* the step is 0 (first is 0 or 1: with or without a constant column).     *)
(* The last row may repeat the label of the first one (a CSV index need    *)
(* not be unique).                                                         *)
(***************************************************************************)
RowLabels(n, dup) == [i \in 1..n |-> IF dup /\ i = n THEN 1 ELSE i]

ColumnStep(first, j) == first + j - 1

Table(n, m, first, dup) ==
    [kind |-> "table",
     index |-> RowLabels(n, dup),
     columns |-> [j \in 1..m |-> j],
     values |-> [i \in 1..n |-> [j \in 1..m |-> ColumnStep(first, j) * (i - 1)]],
     lines |-> <<>>]

Tables ==
    {Table(n, m, first, dup) :
        n \in 1..MaxRows, m \in 1..MaxCols, first \in {0, 1}, dup \in BOOLEAN}

(***************************************************************************)
(* What scipy's dendrogram(Z, no_plot=True) returns for the linkage file:  *)
(* the leaf order (a permutation of the leaf ids 0..n-1, also printed as   *)
(* the labels 'ivl') and one U-shaped branch per merge.  The family is     *)
(* the chain of merges at heights dist, 2*dist, ...: merge k joins the     *)
(* cluster built so far with the leaf drawn at 10*k + 5.  dist is 0 when   *)
(* all observations are identical, 1 otherwise.                            *)
(***************************************************************************)
Perms(n) == {p \in [1..n -> 0..(n - 1)] : \A i, j \in 1..n : p[i] = p[j] => i = j}

RECURSIVE Centre(_)
Centre(k) ==
    IF k = 0 THEN Whole(5)
    ELSE LET c == Centre(k - 1)
         IN  Rat(c[1] + (10 * k + 5) * c[2], 2 * c[2])

Dendro(p, dist) ==
    [leaves |-> p,
     icoord |-> [k \in 1..(Len(p) - 1) |->
                    <<Centre(k - 1), Centre(k - 1), Whole(10 * k + 5), Whole(10 * k + 5)>>],
     dcoord |-> [k \in 1..(Len(p) - 1) |->
                    <<Whole((k - 1) * dist), Whole(k * dist), Whole(k * dist), Whole(0)>>]]

Dendros == {Dendro(p, dist) : p \in UNION {Perms(n) : n \in 2..MaxLeaves}, dist \in {0, 1}}

(***************************************************************************)
(* The state of a DendroHeat object.  Every field keeps one record shape   *)
(* whatever Python type it holds; kind tells the type.                     *)
(***************************************************************************)
\* call is the call made last with its arguments, raised the exception it ended with
VARIABLES rawFile, linkFile, heatmap, linkage, icoord, dcoord, data, call, raised

vars == <<rawFile, linkFile, heatmap, linkage, icoord, dcoord, data, call, raised>>

AddDataCall(file, type) ==
    [op |-> "addData", file |-> file, type |-> type, heatmap |-> FALSE, dendrogram |-> FALSE]

ShowCall(hflag, dflag) ==
    [op |-> "show", file |-> "", type |-> "", heatmap |-> hflag, dendrogram |-> dflag]

EmptyStr == [kind |-> "str", index |-> <<>>, columns |-> <<>>, values |-> <<>>, lines |-> <<>>]

NoCoord == [kind |-> "str", rows |-> <<>>]

NoLinkage == [kind |-> "str", leaves |-> <<>>, icoord |-> <<>>, dcoord |-> <<>>]

NoData ==
    [set |-> FALSE, name |-> <<>>, attribute |-> <<>>, colors |-> <<>>,
     xs |-> <<>>, ys |-> <<>>, value |-> <<>>, alpha |-> <<>>]

Init ==
    /\ rawFile \in Tables
    /\ linkFile \in Dendros
    /\ heatmap = EmptyStr
    /\ linkage = NoLinkage
    /\ icoord = NoCoord
    /\ dcoord = NoCoord
    /\ data = NoData
    /\ call = [op |-> "__init__", file |-> "", type |-> "", heatmap |-> FALSE,
               dendrogram |-> FALSE]
    /\ raised = "none"

(***************************************************************************)
(* addData                                                                 *)
(***************************************************************************)
\* the calls explored: (file, type)
AddDataInputs ==
    {<<"", "raw">>, <<"raw.csv", "">>, <<"notes.txt", "linkage">>,
     <<"raw.csv", "raw">>, <<"linkage.csv", "linkage">>}

Supported(file) == file \in {"raw.csv", "linkage.csv"}

\* DataFrame.iloc[list]: rows picked by 0-based position, in the order of the list;
\* the list is dendro['ivl'], the leaf ids in leaf order as the dendrogram prints them
ILocOk(df, order) == \A k \in DOMAIN order : order[k] < Len(df.index)

\* the labels move, the values stay where they were
ILocLabelsOnly(df, order) ==
    [df EXCEPT !.index = [k \in DOMAIN order |-> df.index[order[k] + 1]],
               !.values = [k \in DOMAIN order |-> df.values[k]]]

ILoc(df, order) ==
    [df EXCEPT !.index = [k \in DOMAIN order |-> df.index[order[k] + 1]],
               !.values = [k \in DOMAIN order |-> df.values[order[k] + 1]]]

addData(file, type) ==
    /\ call' = AddDataCall(file, type)
    /\ UNCHANGED <<rawFile, linkFile, data>>
    /\ IF file = ""
       THEN /\ raised' = "FileNotFoundError"
            /\ UNCHANGED <<heatmap, linkage, icoord, dcoord>>
       ELSE IF type = ""
       THEN /\ raised' = "AssertionError"
            /\ UNCHANGED <<heatmap, linkage, icoord, dcoord>>
       ELSE IF type = "raw"
       THEN IF Supported(file)
            THEN /\ heatmap' = rawFile
                 /\ raised' = "none"
                 /\ UNCHANGED <<linkage, icoord, dcoord>>
            ELSE /\ raised' = "UnboundLocalError"
                 /\ UNCHANGED <<heatmap, linkage, icoord, dcoord>>
       ELSE IF type = "linkage"
       THEN IF ~Supported(file)
            THEN /\ raised' = "UnboundLocalError"
                 /\ UNCHANGED <<heatmap, linkage, icoord, dcoord>>
            ELSE /\ linkage' = [kind |-> "frame", leaves |-> linkFile.leaves,
                                icoord |-> linkFile.icoord, dcoord |-> linkFile.dcoord]
                 /\ icoord' = [kind |-> "list", rows |-> linkFile.icoord]
                 /\ dcoord' = [kind |-> "list", rows |-> linkFile.dcoord]
                 /\ IF heatmap.kind # "table"
                    THEN raised' = "AttributeError" /\ UNCHANGED heatmap
                    ELSE IF ~ILocOk(heatmap, linkFile.leaves)
                    THEN raised' = "IndexError" /\ UNCHANGED heatmap
                    ELSE raised' = "none" /\ heatmap' = ILoc(heatmap, linkFile.leaves)
       ELSE /\ raised' = "none"
            /\ UNCHANGED <<heatmap, linkage, icoord, dcoord>>

AddDataStep == \E c \in AddDataInputs : addData(c[1], c[2])

(***************************************************************************)
(* _createHeatmap                                                          *)
(***************************************************************************)
crange ==
    <<"#66ff66", "#00ffff", "#000099", "#6600ff", "#ff00ff",
      "#990099", "#ff0066", "#993333", "#ff9933", "#ffff00">>

NRows(df) == Len(df.index)

NCols(df) == Len(df.columns)

Column(df, j) == {df.values[i][j] : i \in 1..NRows(df)}

\* ndf = (df - df.min(axis=0)) / (df.max(axis=0) - df.min(axis=0))
ndf(df) ==
    [i \in 1..NRows(df) |->
        [j \in 1..NCols(df) |->
            Rat(df.values[i][j] - IntMin(Column(df, j)),
                IntMax(Column(df, j)) - IntMin(Column(df, j)))]]

\* df.loc[m]: the positions of the rows labelled m
Loc(df, m) == {i \in 1..NRows(df) : df.index[i] = m}

\* df.loc[m].tolist() needs df.loc[m] to be one row (a Series), not a DataFrame
LocIsRow(df, m) == Cardinality(Loc(df, m)) = 1

LocRow(df, rows, m) == rows[CHOOSE i \in Loc(df, m) : TRUE]

\* the dictionary self.data the loop over df.index builds
HeatmapData(df) ==
    [set |-> TRUE,
     name |-> Flatten([i \in 1..NRows(df) |-> [j \in 1..NCols(df) |-> df.index[i]]]),
     attribute |-> Flatten([i \in 1..NRows(df) |-> df.columns]),
     colors |-> Flatten([i \in 1..NRows(df) |-> Repeat(crange, 2)]),
     xs |-> Flatten([i \in 1..NRows(df) |-> [j \in 1..NCols(df) |-> Half(j - 1)]]),
     ys |-> Flatten([i \in 1..NRows(df) |-> [j \in 1..NCols(df) |-> Half(i - 1)]]),
     value |-> Flatten([i \in 1..NRows(df) |-> LocRow(df, df.values, df.index[i])]),
     alpha |-> Flatten([i \in 1..NRows(df) |-> LocRow(df, ndf(df), df.index[i])])]

\* the bokeh figure with the rect glyphs of the grid and no line yet
Figure(df) ==
    [kind |-> "figure", index |-> <<>>, columns |-> df.columns, values |-> <<>>,
     lines |-> <<>>]

Self == [heatmap |-> heatmap, linkage |-> linkage, icoord |-> icoord,
         dcoord |-> dcoord, data |-> data]

\* the object after the call and the exception the call raised
createHeatmap(self) ==
    IF self.heatmap.kind = "None"
    THEN [self |-> self, raised |-> "AssertionError"]
    ELSE IF self.heatmap.kind # "table"
    THEN [self |-> self, raised |-> "AttributeError"]
    ELSE IF \E i \in 1..NRows(self.heatmap) : ~LocIsRow(self.heatmap, self.heatmap.index[i])
    THEN [self |-> self, raised |-> "AttributeError"]
    ELSE [self |-> [self EXCEPT !.data = HeatmapData(self.heatmap),
                                !.heatmap = Figure(self.heatmap)],
          raised |-> "none"]

(***************************************************************************)
(* _createDendrogram                                                       *)
(***************************************************************************)
\* DataFrame.max().max(): the largest value that is not NaN, NaN if there is none
FrameMax(rows) ==
    LET held == SelectSeq(Flatten(rows), LAMBDA v : ~IsNaN(v))
    IN  IF held = <<>> THEN NaN ELSE ListMax(held)

\* the factor upside down: frame * (frame.max().max() / extent)
ScaleInverted(rows, extent) ==
    LET factor == RDiv(FrameMax(rows), extent)
    IN  [k \in DOMAIN rows |-> [n \in DOMAIN rows[k] |-> RMul(rows[k][n], factor)]]

\* frame * (extent / frame.max().max())
Scale(rows, extent) ==
    LET factor == RDiv(extent, FrameMax(rows))
    IN  [k \in DOMAIN rows |-> [n \in DOMAIN rows[k] |-> RMul(rows[k][n], factor)]]

\* the line glyphs the loop adds: one per branch, x the negated d coordinates
Segments(irows, drows) ==
    [k \in 1..IntMin({Len(irows), Len(drows)}) |->
        [x |-> [n \in DOMAIN drows[k] |-> RNeg(drows[k][n])], y |-> irows[k]]]

createDendrogram(self) ==
    IF self.linkage.kind = "None"
    THEN [self |-> self, raised |-> "AssertionError"]
    ELSE IF self.icoord.kind = "str"
    THEN [self |-> self, raised |-> "ValueError"]
    ELSE LET framed == [self EXCEPT !.icoord.kind = "frame", !.dcoord.kind = "frame"]
         IN  IF ~self.data.set
             THEN [self |-> framed, raised |-> "AttributeError"]
             ELSE LET scaled ==
                          [framed EXCEPT
                              !.icoord.rows = Scale(@, ListMax(self.data.ys)),
                              !.dcoord.rows = Scale(@, ListMax(self.data.xs))]
                  IN  IF self.heatmap.kind # "figure"
                      THEN [self |-> scaled, raised |-> "AttributeError"]
                      ELSE [self |-> [scaled EXCEPT !.heatmap.lines =
                                         @ \o Segments(scaled.icoord.rows, scaled.dcoord.rows)],
                            raised |-> "none"]

(***************************************************************************)
(* show                                                                    *)
(***************************************************************************)
\* bokeh's show() refuses an object that is not a figure or layout
ShowResult(self, hflag, dflag) ==
    LET h == IF hflag THEN createHeatmap(self) ELSE [self |-> self, raised |-> "none"]
        d == IF h.raised = "none" /\ dflag
             THEN createDendrogram(h.self)
             ELSE h
    IN  IF d.raised = "none" /\ d.self.heatmap.kind # "figure"
        THEN [self |-> d.self, raised |-> "ValueError"]
        ELSE d

show(hflag, dflag) ==
    /\ Len(heatmap.lines) < MaxLines
    /\ \E r \in {ShowResult(Self, hflag, dflag)} :
          /\ heatmap' = r.self.heatmap
          /\ linkage' = r.self.linkage
          /\ icoord' = r.self.icoord
          /\ dcoord' = r.self.dcoord
          /\ data' = r.self.data
          /\ raised' = r.raised
    /\ call' = ShowCall(hflag, dflag)
    /\ UNCHANGED <<rawFile, linkFile>>

ShowStep == \E hflag, dflag \in BOOLEAN : show(hflag, dflag)

Next == AddDataStep \/ ShowStep

Spec == Init /\ [][Next]_vars

(***************************************************************************)
(* Vocabulary of the properties.                                           *)
(***************************************************************************)
\* the position of the cell of grid row i and column j in the per-cell lists
Cell(i, j, m) == (i - 1) * m + j

\* a step in which _createHeatmap built the grid from the table held in heatmap
BuildStep == heatmap.kind = "table" /\ heatmap'.kind = "figure"

\* a step in which show ran _createDendrogram to its end
ScaleStep == call'.op = "show" /\ call'.dendrogram /\ raised' = "none"

\* a step that is the call addData(file='linkage.csv', type='linkage')
LinkageStep == call' = AddDataCall("linkage.csv", "linkage")

IsPermOf(p, n) == Len(p) = n /\ \A k \in 0..(n - 1) : \E i \in 1..n : p[i] = k

InUnit(q) == RLe(Whole(0), q) /\ RLe(q, Whole(1))

PerCellLists(d) == <<d.name, d.attribute, d.colors, d.xs, d.ys, d.value, d.alpha>>

(***************************************************************************)
(* C1: the grid build produces exactly rows x columns cells, that is every *)
(* per-cell list of the output (name, attribute, colors, xs, ys, value,    *)
(* alpha) has rows x columns entries, and every intensity lies in [0, 1].  *)
(***************************************************************************)
C1_RowsTimesColumnsCells ==
    [][BuildStep =>
          /\ \A k \in 1..7 : Len(PerCellLists(data')[k]) = NRows(heatmap) * NCols(heatmap)
          /\ \A c \in DOMAIN data'.alpha : InUnit(data'.alpha[c])]_vars

(***************************************************************************)
(* C2: the colour of the cell at grid row i and column j is                *)
(* palette[j mod 10], whatever the row and the number of columns.          *)
(***************************************************************************)
C2_ColorByColumnIndex ==
    [][BuildStep =>
          \A i \in 1..NRows(heatmap), j \in 1..NCols(heatmap) :
              /\ Cell(i, j, NCols(heatmap)) \in DOMAIN data'.colors
              /\ data'.colors[Cell(i, j, NCols(heatmap))] = crange[((j - 1) % 10) + 1]]_vars

(***************************************************************************)
(* C6: every cell of a column whose values are all equal gets one fixed,   *)
(* defined intensity; no intensity is the NaN of a division by zero.       *)
(***************************************************************************)
ConstantColumn(df, j) == Cardinality(Column(df, j)) = 1

C6_ConstantColumnNeutral ==
    [][BuildStep =>
          /\ \A c \in DOMAIN data'.alpha : ~IsNaN(data'.alpha[c])
          /\ \A i1, i2 \in 1..NRows(heatmap), j1, j2 \in 1..NCols(heatmap) :
                ConstantColumn(heatmap, j1) /\ ConstantColumn(heatmap, j2)
                => data'.alpha[Cell(i1, j1, NCols(heatmap))]
                     = data'.alpha[Cell(i2, j2, NCols(heatmap))]]_vars

(***************************************************************************)
(* C3: after reorder with a valid leaf order followed by build, grid row i *)
(* (vertical centre i + 0.5) carries, in every column j, the label of the  *)
(* original row leafOrder[i], the raw value table.values[leafOrder[i]][j]  *)
(* and the intensity normalized from that same original cell.  First       *)
(* conjunct: the reorder moves label and values of a row together.  Second *)
(* conjunct: the build of the reordered file table keeps them together.    *)
(***************************************************************************)
IsReorderOf(t, orig, p) ==
    /\ IsPermOf(p, NRows(orig))
    /\ t.columns = orig.columns
    /\ t.index = [i \in 1..NRows(orig) |-> orig.index[p[i] + 1]]
    /\ t.values = [i \in 1..NRows(orig) |-> orig.values[p[i] + 1]]

GridFollows(d, orig, p) ==
    /\ Len(d.name) = NRows(orig) * NCols(orig)
    /\ \A i \in 1..NRows(orig), j \in 1..NCols(orig) :
          LET c == Cell(i, j, NCols(orig))
          IN  /\ d.ys[c] = Half(i - 1)
              /\ d.xs[c] = Half(j - 1)
              /\ d.name[c] = orig.index[p[i] + 1]
              /\ d.attribute[c] = orig.columns[j]
              /\ d.value[c] = orig.values[p[i] + 1][j]
              /\ d.alpha[c] = ndf(orig)[p[i] + 1][j]

C3_ReorderThenBuildKeepsRows ==
    [][/\ (LinkageStep /\ raised' = "none" /\ IsPermOf(linkage'.leaves, NRows(heatmap)))
          => IsReorderOf(heatmap', heatmap, linkage'.leaves)
       /\ (BuildStep /\ linkage.kind = "frame" /\ IsReorderOf(heatmap, rawFile, linkage.leaves))
          => GridFollows(data', rawFile, linkage.leaves)]_vars

\* a grid built after a reorder that moved rows whose values differ
C3_Witness ==
    /\ call.op = "show"
    /\ raised = "none"
    /\ data.set
    /\ linkage.kind = "frame"
    /\ IsPermOf(linkage.leaves, NRows(rawFile))
    /\ GridFollows(data, rawFile, linkage.leaves)
    /\ \E i \in 1..NRows(rawFile) :
          /\ linkage.leaves[i] # i - 1
          /\ rawFile.values[linkage.leaves[i] + 1] # rawFile.values[i]

(***************************************************************************)
(* C4, as claimed: for non-degenerate tree coordinates, after scaling the  *)
(* maximum of the rescaled positions equals rowCount and the maximum of    *)
(* the rescaled depths (before negation) equals columnCount.               *)
(***************************************************************************)
NonDegenerate(rows) == IsFinite(FrameMax(rows)) /\ FrameMax(rows)[1] > 0

GridRows(d) == Cardinality(Range(d.ys))

GridCols(d) == Cardinality(Range(d.xs))

C4_MaxEqualsCounts ==
    [][(ScaleStep /\ NonDegenerate(icoord.rows) /\ NonDegenerate(dcoord.rows))
          => /\ FrameMax(icoord'.rows) = Whole(GridRows(data'))
             /\ FrameMax(dcoord'.rows) = Whole(GridCols(data'))]_vars

(***************************************************************************)
(* C4, amended: for non-degenerate tree coordinates, after scaling the     *)
(* maximum of the rescaled positions equals rowCount - 0.5 and the maximum *)
(* of the rescaled depths (before negation) equals columnCount - 0.5: the  *)
(* largest cell centres max(ys) and max(xs) of the grid that was built.    *)
(***************************************************************************)
C4_MaxEqualsLargestCentre ==
    [][(ScaleStep /\ NonDegenerate(icoord.rows) /\ NonDegenerate(dcoord.rows))
          => /\ FrameMax(icoord'.rows) = Half(GridRows(data') - 1)
             /\ FrameMax(dcoord'.rows) = Half(GridCols(data') - 1)]_vars

\* lines drawn from non-degenerate coordinates of at least two branches whose
\* maxima differ, scaled to the largest cell centres
C4_Witness ==
    /\ call.op = "show"
    /\ call.dendrogram
    /\ raised = "none"
    /\ heatmap.lines # <<>>
    /\ Len(icoord.rows) >= 2
    /\ NonDegenerate(icoord.rows)
    /\ NonDegenerate(dcoord.rows)
    /\ FrameMax(icoord.rows) = Half(GridRows(data) - 1)
    /\ FrameMax(dcoord.rows) = Half(GridCols(data) - 1)
    /\ FrameMax(<<icoord.rows[1]>>) # FrameMax(icoord.rows)

(***************************************************************************)
(* C5: reorder with a leaf order that is not a valid permutation of the    *)
(* table's row indices (wrong length, duplicate, out of range) fails with  *)
(* an error and leaves the stored table exactly as it was.                 *)
(***************************************************************************)
C5_InvalidOrderRejected ==
    [][(LinkageStep /\ heatmap.kind = "table" /\ ~IsPermOf(linkFile.leaves, NRows(heatmap)))
          => (raised' # "none" /\ heatmap' = heatmap)]_vars

(***************************************************************************)
(* C7: scale emits exactly one segment per branch, in branch order; every  *)
(* position of every branch is multiplied by the one factor (grid vertical *)
(* extent / maximum over all position arrays), every depth by the one      *)
(* factor (grid horizontal extent / maximum over all depth arrays); the    *)
(* segment of a branch is {x: its negated rescaled depths, y: its rescaled *)
(* positions}; hence for non-negative depths every emitted x is <= 0 and   *)
(* points of different branches that coincided before scaling coincide     *)
(* after.                                                                  *)
(***************************************************************************)
\* the lines the step added to the figure
Emitted == IF heatmap.kind = "figure" /\ ~call'.heatmap
           THEN SubSeq(heatmap'.lines, Len(heatmap.lines) + 1, Len(heatmap'.lines))
           ELSE heatmap'.lines

SegmentsScaledBy(segs, irows, drows, fy, fx) ==
    /\ Len(segs) = Len(irows)
    /\ \A k \in DOMAIN irows :
          /\ segs[k].y = [n \in DOMAIN irows[k] |-> RMul(irows[k][n], fy)]
          /\ segs[k].x = [n \in DOMAIN drows[k] |-> RNeg(RMul(drows[k][n], fx))]

C7_OneSegmentPerBranchGlobalFactor ==
    [][ScaleStep =>
          /\ SegmentsScaledBy(Emitted, icoord.rows, dcoord.rows,
                              RDiv(ListMax(data'.ys), FrameMax(icoord.rows)),
                              RDiv(ListMax(data'.xs), FrameMax(dcoord.rows)))
          /\ \A k \in DOMAIN Emitted : \A n \in DOMAIN Emitted[k].x :
                RLe(Whole(0), dcoord.rows[k][n]) => RLe(Emitted[k].x[n], Whole(0))
          /\ \A k1, k2 \in DOMAIN Emitted : \A n1, n2 \in 1..4 :
                (/\ REq(icoord.rows[k1][n1], icoord.rows[k2][n2])
                 /\ REq(dcoord.rows[k1][n1], dcoord.rows[k2][n2]))
                => /\ REq(Emitted[k1].y[n1], Emitted[k2].y[n2])
                   /\ REq(Emitted[k1].x[n1], Emitted[k2].x[n2])]_vars

(***************************************************************************)
(* C8: whenever dendrogram lines are drawn, the grid was built from the    *)
(* table reordered by the leaf order of the loaded linkage: the row at     *)
(* grid row i is the original row leafOrder[i].                            *)
(***************************************************************************)
GridIsReordered(d, orig, p) ==
    /\ Len(d.name) = Len(p) * NCols(orig)
    /\ \A i \in 1..Len(p), j \in 1..NCols(orig) :
          /\ p[i] < NRows(orig)
          /\ d.name[Cell(i, j, NCols(orig))] = orig.index[p[i] + 1]
          /\ d.value[Cell(i, j, NCols(orig))] = orig.values[p[i] + 1][j]

C8_LinesOnlyOverReorderedGrid ==
    (heatmap.kind = "figure" /\ heatmap.lines # <<>>)
    => GridIsReordered(data, rawFile, linkage.leaves)

(***************************************************************************)
(* C9: the build retains no state across calls: show() run a second time   *)
(* with no addData in between succeeds and yields the same cell grid and   *)
(* the same scaled segments, and a build leaves the stored input table and *)
(* the raw tree coordinates unchanged.                                     *)
(***************************************************************************)
C9_BuildRepeatable ==
    [][/\ (call = ShowCall(TRUE, TRUE) /\ raised = "none" /\ call' = call)
          => (raised' = "none" /\ data' = data /\ heatmap'.lines = heatmap.lines)
       /\ (call' = ShowCall(TRUE, TRUE) /\ raised' = "none")
          => (heatmap' = heatmap /\ icoord'.rows = icoord.rows
              /\ dcoord'.rows = dcoord.rows)]_vars

(***************************************************************************)
(* C10: on an object to which the required data was never added the create *)
(* step reports its guard error: _createHeatmap raises AssertionError when *)
(* no raw data was added, _createDendrogram raises AssertionError when no  *)
(* linkage was added (as in the command-line run with the raw file only).  *)
(***************************************************************************)
C10_GuardErrors ==
    [][call'.op = "show" =>
          /\ (call'.heatmap /\ heatmap.kind = "str") => raised' = "AssertionError"
          /\ (call'.dendrogram /\ linkage.kind = "str" /\ (~call'.heatmap \/ BuildStep))
             => raised' = "AssertionError"]_vars

====
